---- MODULE Spec2Model ----
(***************************************************************************)
(* Model of the counter animation engine of the room-metrics dashboard     *)
(* (CounterAnimationService): the frame-driven tween loop, the easing      *)
(* functions, the batch operation and the host primitives it relies on     *)
(* (performance.now, requestAnimationFrame, setTimeout); and of the parts   *)
(* of the dashboard that feed it: the room service (RoomService), the      *)
(* display functions of the filter dropdown and the detail panel, and the  *)
(* counters of the dashboard component.                                    *)
(*                                                                         *)
(* JavaScript numbers are modelled as exact rationals extended with NaN,   *)
(* +Infinity and -Infinity, with the IEEE-754 rules for the operations the *)
(* code uses.  Time is counted in whole clock units.                       *)
(***************************************************************************)
EXTENDS Integers, Sequences, FiniteSets, TLC

VARIABLES
    now,          \* performance.now(): the host's clock
    lastFrame,    \* timestamp of the last animation frame the host ran (-1: none yet)
    tweens,       \* the closures created by animateValue / rollTo, by tween id
    rafQueue,     \* requestAnimationFrame's callback list, in request order
    updates,      \* per tween: the updates its step callback has delivered
    textContent,  \* per element: element.textContent
    transform,    \* per element: element.style.transform
    timers,       \* setTimeout's pending timers, by the tween id they will start
    batchTime,    \* clock value at the animateSequence call (-1: no batch)
    roomsSignal,    \* RoomService: the stored room list (rooms$)
    filtersSignal,  \* RoomService: the stored filter (filters$)
    loadingSignal,  \* RoomService: loading$
    errorSignal,    \* RoomService: error$ (<<>> is null, <<m>> the message m)
    requests,       \* getRooms observables subscribed to and not yet delivered, oldest first
    received,       \* what the subscribers of getRooms were handed, oldest first
    filtered,       \* what the last call of getFilteredRooms returned (<<>>: no call yet)
    previous,       \* dashboard: previousTotalRooms, ...ApiCalls, ...AvgQuota, ...ActiveRooms
    counterTimers,  \* dashboard: due times of the pending setTimeout(animateCounters, 100)
    selectedRoom,   \* dashboard: selectedRoom (<<>> is null)
    roomFilter,     \* RoomFilterComponent: its rooms input, selectedRoomIds and isDropdownOpen
    probe           \* a pure function under examination: its arguments and its result

\* the state of the animation engine and of its host
engineVars == <<now, lastFrame, tweens, rafQueue, updates, textContent, transform, timers, batchTime>>

\* the state of the room service
serviceVars == <<roomsSignal, filtersSignal, loadingSignal, errorSignal, requests, received, filtered>>

\* the state of the dashboard component
dashboardVars == <<previous, counterTimers, selectedRoom>>

\* the state of the filter component
filterVars == <<roomFilter>>

appVars == <<serviceVars, dashboardVars, filterVars, probe>>

vars == <<engineVars, appVars>>

----------------------------------------------------------------------------
(* Bounds of the model *)

\* horizon of the clock for single tweens and pairs of tweens
MaxTime == 4

\* horizon of the clock for a batch
SeqMaxTime == 7

\* most frame callbacks one tween of a batch is followed through
MaxSeqFrames == 2

\* horizon of the clock for the room service
SvcMaxTime == 11

\* most getRooms requests followed
MaxRequests == 2

\* most rooms in the list handed to the filter component
MaxListed == 3

\* largest denominator of the points the easing functions are examined at
MaxDenominator == 8

\* largest magnitude of the end values whose rounding is examined
MaxMagnitude == 5

\* largest quotaRemaining of the rooms whose status is examined
MaxQuota == 25

\* largest apiCalls of the rooms whose status is examined
MaxCalls == 2

\* horizon of the clock for the dashboard
DashMaxTime == 14

\* most filter changes of the dashboard followed
MaxFilterChanges == 1

\* most frame callbacks one tween of the dashboard is followed through
MaxDashFrames == 1

\* events of the filter component that change the filter, per run
MaxFilterEvents == 3

----------------------------------------------------------------------------
(* JavaScript numbers *)

Abs(n) == IF n < 0 THEN -n ELSE n

Last(seq) == seq[Len(seq)]

Sign(n) == IF n < 0 THEN -1 ELSE IF n > 0 THEN 1 ELSE 0

RECURSIVE GCD(_, _)
GCD(a, b) == IF b = 0 THEN a ELSE GCD(b, a % b)

\* the finite number n/d, in lowest terms with a positive denominator
Fin(n, d) ==
    LET g == GCD(Abs(n), Abs(d))
        s == IF d < 0 THEN -1 ELSE 1
    IN  [n |-> (s * n) \div g, d |-> (s * d) \div g, k |-> "fin"]

Num(n) == [n |-> n, d |-> 1, k |-> "fin"]

NaN == [n |-> 0, d |-> 1, k |-> "nan"]

PInf == [n |-> 0, d |-> 1, k |-> "pinf"]

NInf == [n |-> 0, d |-> 1, k |-> "ninf"]

IsFinite(x) == x.k = "fin"

IsNaN(x) == x.k = "nan"

\* sign of a number that is not NaN
SignOf(x) == IF x.k = "pinf" THEN 1 ELSE IF x.k = "ninf" THEN -1 ELSE Sign(x.n)

InfOfSign(s) == IF s > 0 THEN PInf ELSE NInf

Neg(x) ==
    IF x.k = "fin" THEN [n |-> -x.n, d |-> x.d, k |-> "fin"]
    ELSE IF x.k = "pinf" THEN NInf
    ELSE IF x.k = "ninf" THEN PInf
    ELSE NaN

Add(x, y) ==
    IF IsNaN(x) \/ IsNaN(y) THEN NaN
    ELSE IF IsFinite(x) /\ IsFinite(y) THEN Fin(x.n * y.d + y.n * x.d, x.d * y.d)
    ELSE IF IsFinite(x) THEN y
    ELSE IF IsFinite(y) THEN x
    ELSE IF x.k = y.k THEN x
    ELSE NaN

Sub(x, y) == Add(x, Neg(y))

Mul(x, y) ==
    IF IsNaN(x) \/ IsNaN(y) THEN NaN
    ELSE IF IsFinite(x) /\ IsFinite(y) THEN Fin(x.n * y.n, x.d * y.d)
    ELSE IF SignOf(x) = 0 \/ SignOf(y) = 0 THEN NaN
    ELSE InfOfSign(SignOf(x) * SignOf(y))

\* x / y; a zero divisor is +0
Div(x, y) ==
    IF IsNaN(x) \/ IsNaN(y) THEN NaN
    ELSE IF IsFinite(x) /\ IsFinite(y)
         THEN IF y.n # 0 THEN Fin(x.n * y.d, x.d * y.n)
              ELSE IF x.n = 0 THEN NaN
              ELSE InfOfSign(Sign(x.n))
    ELSE IF IsFinite(x) THEN Num(0)
    ELSE IF IsFinite(y) THEN InfOfSign(SignOf(x) * (IF SignOf(y) < 0 THEN -1 ELSE 1))
    ELSE NaN

\* x < y; false when either is NaN
Lt(x, y) ==
    IF IsNaN(x) \/ IsNaN(y) THEN FALSE
    ELSE IF IsFinite(x) /\ IsFinite(y) THEN x.n * y.d < y.n * x.d
    ELSE IF x.k = y.k THEN FALSE
    ELSE x.k = "ninf" \/ y.k = "pinf"

\* x <= y; false when either is NaN
Le(x, y) == ~IsNaN(x) /\ ~IsNaN(y) /\ ~Lt(y, x)

MathMin(x, y) ==
    IF IsNaN(x) \/ IsNaN(y) THEN NaN
    ELSE IF Lt(y, x) THEN y ELSE x

\* Math.round: the nearest integer, a tie going up (towards +Infinity)
MathRound(x) ==
    IF IsFinite(x) THEN Num((2 * x.n + x.d) \div (2 * x.d)) ELSE x

\* Math.pow(x, 3)
Pow3(x) == Mul(x, Mul(x, x))

----------------------------------------------------------------------------
(* Easing functions *)

n1 == Fin(121, 16)   \* 7.5625

d1 == Fin(11, 4)     \* 2.75

easeOutCubic(t) == Sub(Num(1), Pow3(Sub(Num(1), t)))

easeInOutCubic(t) ==
    IF Lt(t, Fin(1, 2))
    THEN Mul(Mul(Mul(Num(4), t), t), t)
    ELSE Sub(Num(1), Div(Pow3(Add(Mul(Num(-2), t), Num(2))), Num(2)))

easeOutBounce(t) ==
    IF Lt(t, Div(Num(1), d1))
    THEN Mul(Mul(n1, t), t)
    ELSE IF Lt(t, Div(Num(2), d1))
    THEN LET t2 == Sub(t, Div(Fin(3, 2), d1)) IN Add(Mul(Mul(n1, t2), t2), Fin(3, 4))
    ELSE IF Lt(t, Div(Fin(5, 2), d1))
    THEN LET t2 == Sub(t, Div(Fin(9, 4), d1)) IN Add(Mul(Mul(n1, t2), t2), Fin(15, 16))
    ELSE LET t2 == Sub(t, Div(Fin(21, 8), d1)) IN Add(Mul(Mul(n1, t2), t2), Fin(63, 64))

\* the selector with linear as the function of a kind it does not recognise
getEasingFunctionDefaultLinear(type, t) ==
    CASE type = "linear" -> t
      [] type = "easeOut" -> easeOutCubic(t)
      [] type = "easeInOut" -> easeInOutCubic(t)
      [] type = "bounce" -> easeOutBounce(t)
      [] OTHER -> t

\* getEasingFunction(type)(t)
getEasingFunction(type, t) ==
    CASE type = "linear" -> t
      [] type = "easeOut" -> easeOutCubic(t)
      [] type = "easeInOut" -> easeInOutCubic(t)
      [] type = "bounce" -> easeOutBounce(t)
      [] OTHER -> easeOutCubic(t)

EasingKinds == {"linear", "easeOut", "easeInOut", "bounce"}

----------------------------------------------------------------------------
(* Formatting *)

RECURSIVE Groups(_)
\* the groups of three digits of n >= 0, most significant first
Groups(n) == IF n < 1000 THEN <<n>> ELSE Append(Groups(n \div 1000), n % 1000)

\* Number.prototype.toLocaleString of a rounded value: digit groups joined by the
\* locale's separator; "Infinity" stands for the infinity sign the host prints
formatNumber(num) ==
    IF IsNaN(num) THEN [special |-> "NaN", neg |-> FALSE, groups |-> <<>>]
    ELSE IF num.k = "pinf" THEN [special |-> "Infinity", neg |-> FALSE, groups |-> <<>>]
    ELSE IF num.k = "ninf" THEN [special |-> "Infinity", neg |-> TRUE, groups |-> <<>>]
    ELSE [special |-> "", neg |-> num.n < 0, groups |-> Groups(Abs(num.n))]

\* an element nothing has been written to
EmptyText == [special |-> "empty", neg |-> FALSE, groups |-> <<>>]

NoTransform == [kind |-> "unset", px |-> Num(0)]

----------------------------------------------------------------------------
(* The tween closures and their frame callbacks *)

TweenIds == {1, 2}

Elements == {"e1", "e2"}

NoTween ==
    [kind |-> "none", created |-> FALSE, element |-> "e1", start |-> Num(0), end |-> Num(0),
     duration |-> 0, easing |-> "none", startTimestamp |-> 0, difference |-> Num(0)]

NoTimer ==
    [element |-> "e1", start |-> Num(0), end |-> Num(0), duration |-> 0, armed |-> FALSE,
     due |-> 0, delay |-> 0]

\* the progress computed without the upper clamp
ProgressUnclamped(currentTimestamp, startTimestamp, duration) ==
    Div(Sub(Num(currentTimestamp), Num(startTimestamp)), Num(duration))

\* const elapsed = currentTimestamp - startTimestamp;
\* const progress = Math.min(elapsed / duration, 1);
Progress(currentTimestamp, startTimestamp, duration) ==
    LET elapsed == Sub(Num(currentTimestamp), Num(startTimestamp))
    IN  MathMin(Div(elapsed, Num(duration)), Num(1))

\* Math.round(start + (difference * easedProgress))
CurrentValue(start, difference, easedProgress) ==
    MathRound(Add(start, Mul(difference, easedProgress)))

\* a further frame requested also at progress 1
RequestsNextFrameAtOne(progress) == Le(progress, Num(1))

\* if (progress < 1) requestAnimationFrame(step)
RequestsNextFrame(progress) == Lt(progress, Num(1))

\* The frame state threaded through the callbacks of one frame
FrameState(u, t, tr, q) == [updates |-> u, transform |-> tr, text |-> t, queue |-> q]

\* step of animateValue measuring the elapsed time from a start time the tweens share:
\* the clock value at the latest call
StepAnimateValueSharedStart(st, i, currentTimestamp) ==
    LET tw == tweens[i]
        latest == CHOOSE t \in {tweens[j].startTimestamp : j \in {j \in TweenIds : tweens[j].created}} :
                      \A j \in TweenIds : tweens[j].created => tweens[j].startTimestamp <= t
        progress == Progress(currentTimestamp, latest, tw.duration)
        easedProgress == getEasingFunction(tw.easing, progress)
        currentValue == CurrentValue(tw.start, tw.difference, easedProgress)
    IN  [st EXCEPT
            !.updates[i] = Append(@, [progress |-> progress, value |-> currentValue,
                                      ts |-> currentTimestamp]),
            !.text[tw.element] = formatNumber(currentValue),
            !.queue = IF RequestsNextFrame(progress) THEN Append(@, i) ELSE @]

\* the step that advances by one clock unit per frame delivered, whatever the
\* frame's timestamp
StepAnimateValueCountingFrames(st, i, currentTimestamp) ==
    LET tw == tweens[i]
        progress == Progress(tw.startTimestamp + Len(st.updates[i]) + 1, tw.startTimestamp,
                             tw.duration)
        easedProgress == getEasingFunction(tw.easing, progress)
        currentValue == CurrentValue(tw.start, tw.difference, easedProgress)
    IN  [st EXCEPT
            !.updates[i] = Append(@, [progress |-> progress, value |-> currentValue,
                                      ts |-> currentTimestamp]),
            !.text[tw.element] = formatNumber(currentValue),
            !.queue = IF RequestsNextFrame(progress) THEN Append(@, i) ELSE @]

\* step of animateValue, called by the host with the frame's timestamp
StepAnimateValue(st, i, currentTimestamp) ==
    LET tw == tweens[i]
        progress == Progress(currentTimestamp, tw.startTimestamp, tw.duration)
        easedProgress == getEasingFunction(tw.easing, progress)
        currentValue == CurrentValue(tw.start, tw.difference, easedProgress)
    IN  [st EXCEPT
            !.updates[i] = Append(@, [progress |-> progress, value |-> currentValue,
                                      ts |-> currentTimestamp]),
            !.text[tw.element] = formatNumber(currentValue),
            !.queue = IF RequestsNextFrame(progress) THEN Append(@, i) ELSE @]

\* step of rollTo
StepRollTo(st, i, currentTimestamp) ==
    LET tw == tweens[i]
        progress == Progress(currentTimestamp, tw.startTimestamp, tw.duration)
        easedProgress == easeOutBounce(progress)
        currentValue == CurrentValue(tw.start, tw.difference, easedProgress)
        again == RequestsNextFrame(progress)
    IN  [st EXCEPT
            !.updates[i] = Append(@, [progress |-> progress, value |-> currentValue,
                                      ts |-> currentTimestamp]),
            !.text[tw.element] = formatNumber(currentValue),
            !.transform[tw.element] =
                IF again
                THEN [kind |-> "translateYpx", px |-> Mul(Sub(Num(1), progress), Num(10))]
                ELSE [kind |-> "translateY0", px |-> Num(0)],
            !.queue = IF again THEN Append(@, i) ELSE @]

RECURSIVE RunCallbacks(_, _, _)
\* the host runs the frame's callbacks in the order they were requested
RunCallbacks(queue, st, ts) ==
    IF queue = <<>> THEN st
    ELSE LET i == Head(queue)
             st2 == IF tweens[i].kind = "rollTo"
                    THEN StepRollTo(st, i, ts)
                    ELSE StepAnimateValue(st, i, ts)
         IN  RunCallbacks(Tail(queue), st2, ts)

----------------------------------------------------------------------------
(* Rooms *)

Room(id, name, apiCalls, quotaRemaining) ==
    [id |-> id, name |-> name, apiCalls |-> apiCalls, quotaRemaining |-> quotaRemaining]

\* RoomService.rooms: the room data of the service
Rooms ==
    << Room("room-1", "Room A", 1200, 65), Room("room-2", "Room B", 950, 10),
       Room("room-3", "Room C", 300, 95),  Room("room-4", "Room D", 0, 100),
       Room("room-5", "Room E", 5000, 5),  Room("room-6", "Room F", 1800, 50),
       Room("room-7", "Room G", 230, 75),  Room("room-8", "Room H", 3200, 0),
       Room("room-9", "Room I", 870, 40),  Room("room-10", "Room J", 150, 85) >>

IdsOf(rooms) == {rooms[k].id : k \in 1..Len(rooms)}

\* the counters, in the order animateCounters animates them
Counters ==
    <<"totalRoomsCounter", "totalApiCallsCounter", "avgQuotaCounter", "activeRoomsCounter">>

CounterNames == {Counters[k] : k \in 1..Len(Counters)}

\* no pure function under examination
NoProbe == [fn |-> "none", args |-> <<>>, out |-> <<>>]

----------------------------------------------------------------------------
(* Operations *)

\* the engine and its host before any call
EngineInit ==
    /\ now = 0
    /\ lastFrame = -1
    /\ tweens = [i \in TweenIds |-> NoTween]
    /\ rafQueue = <<>>
    /\ updates = [i \in TweenIds |-> <<>>]
    /\ textContent = [e \in Elements |-> EmptyText]
    /\ transform = [e \in Elements |-> NoTransform]
    /\ timers = [i \in TweenIds |-> NoTimer]
    /\ batchTime = -1

\* the fields of RoomService after construction
ServiceInit ==
    /\ roomsSignal = Rooms
    /\ filtersSignal = [selectedRoomIds |-> <<>>]
    /\ loadingSignal = FALSE
    /\ errorSignal = <<>>
    /\ requests = <<>>
    /\ received = <<>>
    /\ filtered = <<>>

\* the fields of RoomDashboardComponent after construction
DashboardInit ==
    /\ previous = [c \in CounterNames |-> Num(0)]
    /\ counterTimers = <<>>
    /\ selectedRoom = <<>>

\* the fields of RoomFilterComponent after construction
FilterInit ==
    roomFilter = [rooms |-> <<>>, selectedRoomIds |-> <<>>, isDropdownOpen |-> FALSE]

Init ==
    /\ EngineInit
    /\ ServiceInit
    /\ DashboardInit
    /\ FilterInit
    /\ probe = NoProbe

\* the clock advances by one unit, up to the horizon h
Tick(h) ==
    /\ now < h
    /\ now' = now + 1
    /\ UNCHANGED <<lastFrame, tweens, rafQueue, updates, textContent, transform, timers, batchTime>>
    /\ UNCHANGED appVars

\* the call short-circuited when start = end: the closure is created and no frame
\* callback is requested
StartTweenShortCircuit(i, kind, element, start, end, duration, easing) ==
    /\ tweens' = [tweens EXCEPT ![i] =
            [kind |-> kind, created |-> TRUE, element |-> element, start |-> start,
             end |-> end, duration |-> duration, easing |-> easing,
             startTimestamp |-> now, difference |-> Sub(end, start)]]
    /\ rafQueue' = IF start = end THEN rafQueue ELSE Append(rafQueue, i)

\* the closure a call of animateValue or rollTo creates: it reads the clock, computes
\* the difference and requests its first frame callback
StartTween(i, kind, element, start, end, duration, easing) ==
    /\ tweens' = [tweens EXCEPT ![i] =
            [kind |-> kind, created |-> TRUE, element |-> element, start |-> start,
             end |-> end, duration |-> duration, easing |-> easing,
             startTimestamp |-> now, difference |-> Sub(end, start)]]
    /\ rafQueue' = Append(rafQueue, i)

\* a tween id that names no closure and no timer yet
Free(i) == ~tweens[i].created /\ ~timers[i].armed

animateValue(i, element, start, end, duration, easing) ==
    /\ Free(i)
    /\ StartTween(i, "animateValue", element, start, end, duration, easing)
    /\ UNCHANGED <<now, lastFrame, updates, textContent, transform, timers, batchTime>>
    /\ UNCHANGED appVars

rollTo(i, element, start, end, duration) ==
    /\ Free(i)
    /\ StartTween(i, "rollTo", element, start, end, duration, "bounce")
    /\ UNCHANGED <<now, lastFrame, updates, textContent, transform, timers, batchTime>>
    /\ UNCHANGED appVars

\* the host runs an animation frame: every callback requested so far is called with
\* the frame's timestamp ts; frame timestamps increase and never exceed the clock
Frame(ts) ==
    /\ rafQueue # <<>>
    /\ lastFrame < ts
    /\ ts <= now
    /\ \E st \in {RunCallbacks(rafQueue, FrameState(updates, textContent, transform, <<>>), ts)} :
           /\ updates' = st.updates
           /\ textContent' = st.text
           /\ transform' = st.transform
           /\ rafQueue' = st.queue
    /\ lastFrame' = ts
    /\ UNCHANGED <<now, tweens, timers, batchTime>>
    /\ UNCHANGED appVars

RECURSIVE SumDelays(_, _)
SumDelays(elements, k) == IF k = 0 THEN 0 ELSE SumDelays(elements, k - 1) + elements[k].delay

\* delays chained: an entry's delay counted from the previous entry's due time
TimerDueChained(elements, k, t) == t + SumDelays(elements, k)

\* the time at which the timer of entry k of a batch called at time t is due
TimerDue(elements, k, t) == t + elements[k].delay

\* animateSequence: one timer per entry, each set for the entry's own delay
animateSequence(elements, duration) ==
    /\ batchTime = -1
    /\ \A k \in 1..Len(elements) : Free(k)
    /\ timers' = [i \in TweenIds |->
            IF i <= Len(elements)
            THEN [element |-> elements[i].element, start |-> elements[i].start,
                  end |-> elements[i].end, duration |-> duration,
                  armed |-> TRUE, due |-> TimerDue(elements, i, now),
                  delay |-> elements[i].delay]
            ELSE timers[i]]
    /\ batchTime' = now
    /\ UNCHANGED <<now, lastFrame, tweens, rafQueue, updates, textContent, transform>>
    /\ UNCHANGED appVars

\* a timer of the batch fires, at or after its due time, and calls animateValue with
\* the default easing
TimerFires(i) ==
    /\ timers[i].armed
    /\ now >= timers[i].due
    /\ timers' = [timers EXCEPT ![i].armed = FALSE]
    /\ StartTween(i, "animateValue", timers[i].element, timers[i].start, timers[i].end,
                  timers[i].duration, "easeOut")
    /\ UNCHANGED <<now, lastFrame, updates, textContent, transform, batchTime>>
    /\ UNCHANGED appVars

----------------------------------------------------------------------------
(* RoomService *)

\* delay(1000), in clock units of 100 ms
RequestDelay == 10

\* Error('Failed to fetch room data').message
FetchFailure == "Failed to fetch room data"

\* selectedRoomIds.includes(id)
Includes(ids, id) == \E k \in 1..Len(ids) : ids[k] = id

RECURSIVE FilterByIds(_, _)
\* rooms.filter(room => ids.includes(room.id))
FilterByIds(rooms, ids) ==
    IF rooms = <<>> THEN <<>>
    ELSE LET rest == FilterByIds(Tail(rooms), ids)
         IN  IF Includes(ids, Head(rooms).id) THEN <<Head(rooms)>> \o rest ELSE rest

\* the filter applied also to an empty selection
getFilteredRoomsAlwaysFiltering == FilterByIds(roomsSignal, filtersSignal.selectedRoomIds)

\* what getFilteredRooms() returns in the current state
getFilteredRooms ==
    IF Len(filtersSignal.selectedRoomIds) = 0
    THEN roomsSignal
    ELSE FilterByIds(roomsSignal, filtersSignal.selectedRoomIds)

\* a caller reads getFilteredRooms()
callGetFilteredRooms ==
    /\ filtered' = <<getFilteredRooms>>
    /\ UNCHANGED <<roomsSignal, filtersSignal, loadingSignal, errorSignal, requests, received>>
    /\ UNCHANGED <<engineVars, dashboardVars, filterVars, probe>>

updateFilters(filters) ==
    /\ filtersSignal' = filters
    /\ UNCHANGED <<roomsSignal, loadingSignal, errorSignal, requests, received, filtered>>

\* getRooms(): the signals are set at the call; the observable it returns delivers
\* RequestDelay after it is subscribed to
getRooms ==
    /\ loadingSignal' = TRUE
    /\ errorSignal' = <<>>
    /\ requests' = Append(requests, [due |-> now + RequestDelay])
    /\ UNCHANGED <<roomsSignal, filtersSignal, received, filtered>>

\* loadData(): getRooms().subscribe()
loadData ==
    /\ getRooms
    /\ UNCHANGED <<engineVars, dashboardVars, filterVars, probe>>

\* the error handler that leaves loading$ set
catchErrorStillLoading(message) ==
    /\ loadingSignal' = loadingSignal
    /\ errorSignal' = <<message>>
    /\ received' = Append(received, [kind |-> "next", value |-> <<>>, failed |-> TRUE])
    /\ UNCHANGED roomsSignal

\* catchError: the failure is turned into an empty list for the subscriber
catchError(message) ==
    /\ loadingSignal' = FALSE
    /\ errorSignal' = <<message>>
    /\ received' = Append(received, [kind |-> "next", value |-> <<>>, failed |-> TRUE])
    /\ UNCHANGED roomsSignal

\* the oldest observable delivers, at or after its due time; fails says whether
\* Math.random() < 0.05 held
deliver(fails) ==
    /\ requests # <<>>
    /\ now >= Head(requests).due
    /\ requests' = Tail(requests)
    /\ IF fails
       THEN catchError(FetchFailure)
       ELSE /\ loadingSignal' = FALSE
            /\ roomsSignal' = Rooms
            /\ received' = Append(received, [kind |-> "next", value |-> Rooms, failed |-> FALSE])
            /\ UNCHANGED errorSignal
    /\ UNCHANGED <<filtersSignal, filtered>>
    /\ UNCHANGED <<engineVars, dashboardVars, filterVars, probe>>

----------------------------------------------------------------------------
(* RoomFilterComponent: the text of the dropdown *)

\* isRoomSelected(roomId), for the component's selectedRoomIds
isRoomSelected(selectedRoomIds, roomId) == Includes(selectedRoomIds, roomId)

\* getSelectedCount()
getSelectedCount(selectedRoomIds) == Len(selectedRoomIds)

RECURSIVE FindSelected(_, _)
\* rooms.find(room => isRoomSelected(room.id)): <<>> is undefined
FindSelected(rooms, selectedRoomIds) ==
    IF rooms = <<>> THEN <<>>
    ELSE IF isRoomSelected(selectedRoomIds, Head(rooms).id) THEN <<Head(rooms)>>
    ELSE FindSelected(Tail(rooms), selectedRoomIds)

\* getDropdownDisplayText(), for the component's rooms input and selectedRoomIds
getDropdownDisplayText(rooms, selectedRoomIds) ==
    LET selectedCount == getSelectedCount(selectedRoomIds)
    IN  IF selectedCount = 0 THEN "All rooms selected"
        ELSE IF selectedCount = 1
        THEN LET found == FindSelected(rooms, selectedRoomIds)
             IN  IF found # <<>> THEN found[1].name ELSE "1 room selected"
        ELSE IF selectedCount = Len(rooms) THEN "All rooms selected"
        ELSE ToString(selectedCount) \o " rooms selected"

----------------------------------------------------------------------------
(* RoomDashboardComponent: the four counters *)

\* the durations animateCounters passes (800, 1200, 900 and 700 ms), in clock units of
\* 100 ms
CounterDuration ==
    [totalRoomsCounter |-> 8, totalApiCallsCounter |-> 12, avgQuotaCounter |-> 9,
     activeRoomsCounter |-> 7]

\* setTimeout(..., 100), in clock units of 100 ms
CounterDelay == 1

\* whether the view holds the counter's element when animateCounters runs; the
\* template that decides it is not part of the sources
Rendered(counter) == TRUE

RECURSIVE SumOver(_, _)
\* rooms.reduce((sum, room) => sum + room[field], 0)
SumOver(rooms, field) ==
    IF rooms = <<>> THEN 0 ELSE SumOver(SubSeq(rooms, 1, Len(rooms) - 1), field) + Last(rooms)[field]

totalApiCalls(rooms) == Num(SumOver(rooms, "apiCalls"))

averageQuotaRemaining(rooms) ==
    IF Len(rooms) = 0 THEN Num(0)
    ELSE MathRound(Div(Num(SumOver(rooms, "quotaRemaining")), Num(Len(rooms))))

activeRooms(rooms) == Num(Len(SelectSeq(rooms, LAMBDA room : room.apiCalls > 0)))

\* the four current values animateCounters reads
CurrentValues ==
    LET rooms == getFilteredRooms
    IN  [totalRoomsCounter |-> Num(Len(rooms)), totalApiCallsCounter |-> totalApiCalls(rooms),
         avgQuotaCounter |-> averageQuotaRemaining(rooms), activeRoomsCounter |-> activeRooms(rooms)]

\* every animation starting from 0
CounterStartFromZero(counter) == Num(0)

\* the start value animateCounters passes for a counter
CounterStart(counter) == previous[counter]

\* number of closures created so far
CreatedCount == Cardinality({i \in DOMAIN tweens : tweens[i].created})

\* animateCounters(): one animateValue call per counter the view holds, with the
\* default easing, then the previous values are replaced by the current ones
animateCounters ==
    LET current == CurrentValues
        shown == SelectSeq(Counters, Rendered)
        first == CreatedCount
    IN  /\ tweens' = [i \in DOMAIN tweens |->
                IF i \in (first + 1)..(first + Len(shown))
                THEN LET counter == shown[i - first]
                     IN  [kind |-> "animateValue", created |-> TRUE, element |-> counter,
                          start |-> CounterStart(counter), end |-> current[counter],
                          duration |-> CounterDuration[counter], easing |-> "easeOut",
                          startTimestamp |-> now,
                          difference |-> Sub(current[counter], CounterStart(counter))]
                ELSE tweens[i]]
        /\ rafQueue' = rafQueue \o [k \in 1..Len(shown) |-> first + k]
        /\ previous' = current

\* the oldest setTimeout(animateCounters, 100) fires, at or after its due time
counterTimerFires ==
    /\ counterTimers # <<>>
    /\ now >= Head(counterTimers)
    /\ counterTimers' = Tail(counterTimers)
    /\ animateCounters
    /\ UNCHANGED <<now, lastFrame, updates, textContent, transform, timers, batchTime>>
    /\ UNCHANGED <<serviceVars, selectedRoom, filterVars, probe>>

\* the handler that keeps the selected room
onFiltersChangedKeepingSelection(filters) ==
    /\ updateFilters(filters)
    /\ selectedRoom' = selectedRoom
    /\ counterTimers' = Append(counterTimers, now + CounterDelay)
    /\ UNCHANGED <<engineVars, previous, probe>>

\* onFiltersChanged(filters)
onFiltersChanged(filters) ==
    /\ updateFilters(filters)
    /\ selectedRoom' = <<>>
    /\ counterTimers' = Append(counterTimers, now + CounterDelay)
    /\ UNCHANGED <<engineVars, previous, probe>>

\* getRoomById(id): roomsSignal().find(room => room.id === id); <<>> is undefined
getRoomById(id) ==
    LET found == SelectSeq(roomsSignal, LAMBDA room : room.id = id)
    IN  IF found = <<>> THEN <<>> ELSE <<found[1]>>

\* a chart's click event: data is <<>> when the event has none, and the id of its data
\* is <<>> when the clicked item carries none
ChartEvent(data) == [data |-> data]

\* onChartClick(event)
onChartClick(event) ==
    /\ selectedRoom' =
          IF event.data # <<>> /\ event.data[1].id # <<>>
          THEN LET room == getRoomById(event.data[1].id[1])
               IN  IF room # <<>> THEN room ELSE selectedRoom
          ELSE selectedRoom
    /\ UNCHANGED <<engineVars, serviceVars, previous, counterTimers, filterVars, probe>>

\* closeDetail()
closeDetail ==
    /\ selectedRoom' = <<>>
    /\ UNCHANGED <<engineVars, serviceVars, previous, counterTimers, filterVars, probe>>

----------------------------------------------------------------------------
(* RoomFilterComponent: the selection and the dropdown *)

\* the rooms input of the component is bound to a room list
setRooms(rooms) ==
    /\ roomFilter' = [roomFilter EXCEPT !.rooms = rooms]
    /\ UNCHANGED <<engineVars, serviceVars, dashboardVars, probe>>

\* emitFiltersChanged(selectedIds): filtersChanged.emit calls the dashboard's handler
\* before it returns
emitFiltersChanged(selectedIds) == onFiltersChanged([selectedRoomIds |-> selectedIds])

\* the handler that emits the selection it found, not the one it stored
onRoomSelectionChangeEmittingOld(roomId, checked) ==
    LET currentSelection == roomFilter.selectedRoomIds
        newSelection == IF checked
                        THEN Append(currentSelection, roomId)
                        ELSE SelectSeq(currentSelection, LAMBDA id : id # roomId)
    IN  /\ roomFilter' = [roomFilter EXCEPT !.selectedRoomIds = newSelection]
        /\ emitFiltersChanged(currentSelection)

\* onRoomSelectionChange(roomId, event): checked is event.target.checked
onRoomSelectionChange(roomId, checked) ==
    LET currentSelection == roomFilter.selectedRoomIds
        newSelection == IF checked
                        THEN Append(currentSelection, roomId)
                        ELSE SelectSeq(currentSelection, LAMBDA id : id # roomId)
    IN  /\ roomFilter' = [roomFilter EXCEPT !.selectedRoomIds = newSelection]
        /\ emitFiltersChanged(newSelection)

\* selectAll()
selectAll ==
    LET allRoomIds == [k \in 1..Len(roomFilter.rooms) |-> roomFilter.rooms[k].id]
    IN  /\ roomFilter' = [roomFilter EXCEPT !.selectedRoomIds = allRoomIds]
        /\ emitFiltersChanged(allRoomIds)

\* clearAll()
clearAll ==
    /\ roomFilter' = [roomFilter EXCEPT !.selectedRoomIds = <<>>]
    /\ emitFiltersChanged(<<>>)

\* toggleDropdown()
toggleDropdown ==
    /\ roomFilter' = [roomFilter EXCEPT !.isDropdownOpen = ~roomFilter.isDropdownOpen]
    /\ UNCHANGED <<engineVars, serviceVars, dashboardVars, probe>>

\* closeDropdown()
closeDropdown ==
    /\ roomFilter' = [roomFilter EXCEPT !.isDropdownOpen = FALSE]
    /\ UNCHANGED <<engineVars, serviceVars, dashboardVars, probe>>


----------------------------------------------------------------------------
(* Room status: the filter dropdown and the detail panel *)

\* RoomFilterComponent.getRoomStatus
getRoomStatus(room) ==
    IF room.quotaRemaining = 0 THEN "Full"
    ELSE IF room.quotaRemaining < 20 THEN "High"
    ELSE IF room.apiCalls = 0 THEN "Idle"
    ELSE "Active"

\* RoomFilterComponent.getStatusClasses
getStatusClasses(room) ==
    LET baseClasses == "status-indicator"
    IN  IF room.quotaRemaining = 0 THEN baseClasses \o " status-critical"
        ELSE IF room.quotaRemaining < 20 THEN baseClasses \o " status-warning"
        ELSE IF room.apiCalls = 0 THEN baseClasses \o " status-idle"
        ELSE baseClasses \o " status-active"

\* the status text with the idle test placed before the quota tests
getStatusTextIdleFirst(room) ==
    IF room.apiCalls = 0 THEN "Inactive Room"
    ELSE IF room.quotaRemaining = 0 THEN "Quota Exhausted"
    ELSE IF room.quotaRemaining < 20 THEN "High Usage Alert"
    ELSE "Operating Normally"

\* RoomDetailComponent.getStatusText, for the component's room
getStatusText(room) ==
    IF room.quotaRemaining = 0 THEN "Quota Exhausted"
    ELSE IF room.quotaRemaining < 20 THEN "High Usage Alert"
    ELSE IF room.apiCalls = 0 THEN "Inactive Room"
    ELSE "Operating Normally"

----------------------------------------------------------------------------
(* Pure functions under examination *)

\* the function is examined on the arguments args
Examine(fn, args) == [fn |-> fn, args |-> args, out |-> <<>>]

\* the function returns result
Return(result) ==
    /\ probe.out = <<>>
    /\ probe' = [probe EXCEPT !.out = <<result>>]
    /\ UNCHANGED <<engineVars, serviceVars, dashboardVars, filterVars>>

----------------------------------------------------------------------------
(* Specifications *)

StartValues == {Num(0), Num(4), NaN}

EndValues == {Num(0), Num(4), Fin(5, 2), PInf}

Durations == {-1, 0, 3, 4}

\* one tween, every kind of input
Next ==
    \/ Tick(MaxTime)
    \/ \E s \in StartValues, e \in EndValues, d \in Durations, g \in EasingKinds :
          animateValue(1, "e1", s, e, d, g)
    \/ \E s \in StartValues, e \in EndValues, d \in Durations :
          rollTo(1, "e1", s, e, d)
    \/ \E ts \in 0..MaxTime : Frame(ts)

Spec == Init /\ [][Next]_vars

PairDurations == {2, 3}

\* the element each tween of a pair writes to
PairElement(i) == IF i = 1 THEN "e1" ELSE "e2"

PairEasings == {"linear", "easeOut"}

\* two tweens on finite inputs
PairNext ==
    \/ Tick(MaxTime)
    \/ \E i \in TweenIds, d \in PairDurations, g \in PairEasings :
          animateValue(i, PairElement(i), Num(0), Num(4), d, g)
    \/ \E ts \in 0..MaxTime : Frame(ts)

PairSpec == Init /\ [][PairNext]_vars

\* the end value of each of two animations of one element
OverlapEnd(i) == IF i = 1 THEN Num(4) ELSE Num(8)

\* animateValue is called on an element whose earlier animation is still running:
\* tween 1 is started first, tween 2 while tween 1 has a frame callback pending
OverlapNext ==
    \/ Tick(MaxTime)
    \/ \E d \in PairDurations : animateValue(1, "e1", Num(0), OverlapEnd(1), d, "linear")
    \/ \E d \in PairDurations :
          /\ \E k \in 1..Len(rafQueue) : rafQueue[k] = 1
          /\ animateValue(2, "e1", Num(0), OverlapEnd(2), d, "linear")
    \/ \E ts \in 0..MaxTime : Frame(ts)

OverlapSpec == Init /\ [][OverlapNext]_vars


\* the delays of the two entries of a batch
SeqDelays == {<<0, 5>>, <<2, 5>>, <<5, 0>>}

Batches ==
    { << [element |-> "e1", start |-> Num(0), end |-> Num(10), delay |-> dl[1]],
         [element |-> "e2", start |-> Num(0), end |-> Num(20), delay |-> dl[2]] >> :
      dl \in SeqDelays }

\* one batch of two entries
SeqNext ==
    \/ Tick(SeqMaxTime)
    \/ \E b \in Batches : animateSequence(b, 10)
    \/ \E i \in TweenIds : TimerFires(i)
    \/ \E ts \in 0..SeqMaxTime :
          /\ \A i \in TweenIds : Len(updates[i]) < MaxSeqFrames
          /\ Frame(ts)

SeqSpec == Init /\ [][SeqNext]_vars

\* the filters handed to updateFilters: none, one room, two rooms in reverse order,
\* one room twice, a room the service does not have
FilterInputs ==
    { <<>>, <<"room-1">>, <<"room-3", "room-1">>, <<"room-1", "room-1">>, <<"room-11">> }

\* the room service: filters and overlapping requests
SvcNext ==
    \/ Tick(SvcMaxTime)
    \/ \E ids \in FilterInputs :
          /\ updateFilters([selectedRoomIds |-> ids])
          /\ UNCHANGED <<engineVars, dashboardVars, filterVars, probe>>
    \/ callGetFilteredRooms
    \/ Len(requests) + Len(received) < MaxRequests /\ loadData
    \/ \E fails \in BOOLEAN : deliver(fails)

SvcSpec == Init /\ [][SvcNext]_vars

RECURSIVE SeqsUpTo(_, _)
\* the sequences of at most n members of S
SeqsUpTo(S, n) ==
    IF n = 0 THEN {<<>>}
    ELSE LET shorter == SeqsUpTo(S, n - 1)
         IN  shorter \cup {Append(q, x) : q \in shorter, x \in S}

\* the room lists handed to the filter component: the first rooms of the service
RoomLists == {SubSeq(Rooms, 1, n) : n \in 0..MaxListed}

\* the component's selectedRoomIds: ids of the first rooms, in any order, also repeated
Selections == SeqsUpTo(IdsOf(SubSeq(Rooms, 1, MaxListed)), MaxListed)

DisplayInit ==
    /\ EngineInit /\ ServiceInit /\ DashboardInit /\ FilterInit
    /\ probe \in {Examine("getDropdownDisplayText", <<rooms, ids>>) :
                     rooms \in RoomLists, ids \in Selections}

\* the dropdown's text for every room list and selection
DisplayNext == Return(getDropdownDisplayText(probe.args[1], probe.args[2]))

DisplaySpec == DisplayInit /\ [][DisplayNext]_vars

\* the closures of the dashboard: four for every run of animateCounters
DashTweenIds == 1..(Len(Counters) * (MaxFilterChanges + 1))

\* the filters the dropdown hands to the dashboard
DashFilters == { <<>>, <<"room-4">>, <<"room-1", "room-8">> }

\* the longest animation animateCounters starts
LongestCounterDuration ==
    CHOOSE d \in {CounterDuration[c] : c \in CounterNames} :
        \A c \in CounterNames : CounterDuration[c] <= d

\* no timer of the dashboard is due now
NoCounterTimerDue == IF counterTimers = <<>> THEN TRUE ELSE now < Head(counterTimers)

\* the dashboard after ngOnInit (loadData) and ngAfterViewInit (the first timer)
DashInit ==
    /\ now = 0
    /\ lastFrame = -1
    /\ tweens = [i \in DashTweenIds |-> NoTween]
    /\ rafQueue = <<>>
    /\ updates = [i \in DashTweenIds |-> <<>>]
    /\ textContent = [e \in CounterNames |-> EmptyText]
    /\ transform = [e \in CounterNames |-> NoTransform]
    /\ timers = [i \in DashTweenIds |-> NoTimer]
    /\ batchTime = -1
    /\ roomsSignal = Rooms
    /\ filtersSignal = [selectedRoomIds |-> <<>>]
    /\ loadingSignal = TRUE
    /\ errorSignal = <<>>
    /\ requests = <<[due |-> RequestDelay]>>
    /\ received = <<>>
    /\ filtered = <<>>
    /\ previous = [c \in CounterNames |-> Num(0)]
    /\ counterTimers = <<CounterDelay>>
    /\ selectedRoom = <<>>
    /\ FilterInit
    /\ probe = NoProbe

\* the dashboard: filter changes early enough for their animations to end within the
\* horizon, timers that fire when due, and frames.  The request of loadData stays in
\* flight: its delivery touches nothing the counters read.
DashNext ==
    \/ NoCounterTimerDue /\ Tick(DashMaxTime)
    \/ \E ids \in DashFilters :
          /\ CreatedCount + Len(Counters) * (Len(counterTimers) + 1) <= Len(Counters) * (MaxFilterChanges + 1)
          /\ now + CounterDelay + LongestCounterDuration <= DashMaxTime
          /\ onFiltersChanged([selectedRoomIds |-> ids])
          /\ UNCHANGED filterVars
    \/ counterTimerFires
    \/ \E ts \in 0..DashMaxTime :
          /\ \A i \in DashTweenIds : Len(updates[i]) < MaxDashFrames
          /\ Frame(ts)

DashSpec == DashInit /\ [][DashNext]_vars

\* the room lists the rooms input of the filter component is bound to
RoomInputs == {SubSeq(Rooms, 1, 2), Rooms}

\* the rooms whose checkbox is clicked
ClickedRooms == {"room-1", "room-4"}

\* the click events the charts emit: the items of the bar and pie charts are made of the
\* filtered rooms and carry their ids, the points of a line chart carry no id, a click
\* beside the items has no data; room-11 is an id no stored room has
ChartClicks ==
    {ChartEvent(<<[id |-> <<getFilteredRooms[k].id>>]>>) : k \in 1..Len(getFilteredRooms)}
    \cup {ChartEvent(<<>>), ChartEvent(<<[id |-> <<>>]>>), ChartEvent(<<[id |-> <<"room-11">>]>>)}

\* the view of the dashboard within the first 100 ms, before any timer is due: the
\* filter component's events, each handled by the dashboard, and the charts' clicks
ViewNext ==
    \/ \E rooms \in RoomInputs : setRooms(rooms)
    \/ \E roomId \in ClickedRooms, checked \in BOOLEAN :
          /\ Len(counterTimers) < MaxFilterEvents
          /\ onRoomSelectionChange(roomId, checked)
    \/ Len(counterTimers) < MaxFilterEvents /\ selectAll
    \/ Len(counterTimers) < MaxFilterEvents /\ clearAll
    \/ toggleDropdown
    \/ closeDropdown
    \/ \E event \in ChartClicks : onChartClick(event)
    \/ closeDetail

ViewSpec == Init /\ [][ViewNext]_vars


\* the points of [0, 1] the easing functions are examined at
UnitPoints == UNION {{Fin(n, d) : n \in 0..d} : d \in 1..MaxDenominator}

EaseInit ==
    /\ EngineInit /\ ServiceInit /\ DashboardInit /\ FilterInit
    /\ probe \in {Examine("getEasingFunction", <<type, t>>) :
                     type \in EasingKinds \cup {"elastic"}, t \in UnitPoints}

\* the selected easing function at every point
EaseNext == Return(getEasingFunction(probe.args[1], probe.args[2]))

EaseSpec == EaseInit /\ [][EaseNext]_vars

\* the end values of the tweens whose rounding is examined
RoundEnds == {Num(k) : k \in (0 - MaxMagnitude)..MaxMagnitude}

RoundInit ==
    /\ EngineInit /\ ServiceInit /\ DashboardInit /\ FilterInit
    /\ probe \in {Examine("currentValue", <<Num(0), end, easedProgress>>) :
                     end \in RoundEnds, easedProgress \in UnitPoints}

\* the value a step delivers, for every end value and eased progress
RoundNext ==
    Return(CurrentValue(probe.args[1], Sub(probe.args[2], probe.args[1]), probe.args[3]))

RoundSpec == RoundInit /\ [][RoundNext]_vars

\* the rooms whose status is examined: the rooms of the service and rooms with every
\* small quota and number of calls
StatusRooms ==
    {Rooms[k] : k \in 1..Len(Rooms)} \cup
    {Room("room-0", "Room", apiCalls, quotaRemaining) :
        apiCalls \in 0..MaxCalls, quotaRemaining \in 0..MaxQuota}

StatusInit ==
    /\ EngineInit /\ ServiceInit /\ DashboardInit /\ FilterInit
    /\ probe \in {Examine("status", <<room>>) : room \in StatusRooms}

\* the views show the room: the dropdown's label and class, the panel's text
StatusNext ==
    Return([text |-> getStatusText(probe.args[1]),
            label |-> getRoomStatus(probe.args[1]),
            classes |-> getStatusClasses(probe.args[1])])

StatusSpec == StatusInit /\ [][StatusNext]_vars

----------------------------------------------------------------------------
(* Vocabulary of the properties *)

Created(i) == tweens[i].created

\* number of frame callbacks tween i has requested and the host has not yet run
PendingCount(i, queue) == Cardinality({k \in 1..Len(queue) : queue[k] = i})

Pending(i) == PendingCount(i, rafQueue) > 0

\* the tween was started and has no frame callback pending: it will deliver nothing more
Stopped(i) == Created(i) /\ ~Pending(i)

FiniteEnds(i) == IsFinite(tweens[i].start) /\ IsFinite(tweens[i].end)

\* the single update a tween that completes immediately is to deliver
ImmediateCompletion(i) ==
    /\ Len(updates[i]) <= 1
    /\ \A k \in 1..Len(updates[i]) :
          /\ updates[i][k].value = MathRound(tweens[i].end)
          /\ updates[i][k].progress = Num(1)
    /\ Len(updates[i]) = 1 => ~Pending(i)

----------------------------------------------------------------------------
(* Properties of a single tween, checked under Spec *)

\* C1: a tween with duration 0 and finite start and end delivers at most one update,
\* that update has value = end (rounded) and progress = 1, and after it the tween has
\* no frame callback pending, whatever the timestamp of its first frame.
\* The code divides by the duration: a first frame at the recorded start time gives
\* 0/0 = NaN, an earlier one gives -Infinity and a further frame.
C1_ZeroDurationSingleUpdate ==
    \A i \in TweenIds :
        (Created(i) /\ tweens[i].duration = 0 /\ FiniteEnds(i)) => ImmediateCompletion(i)

\* C2: a tween with a negative duration and finite start and end behaves like one with
\* duration 0: a single update with value = end (rounded) and progress = 1, and no
\* further frame callback.
\* In the code elapsed / duration is then at most 0 once the clock has passed the start
\* time, so the tween keeps requesting frames.
C2_NegativeDurationLikeZero ==
    \A i \in TweenIds :
        (Created(i) /\ tweens[i].duration < 0 /\ FiniteEnds(i)) => ImmediateCompletion(i)

\* C3: for every easing kind, every finite start and end and every duration > 0, the
\* last update of a tween that has stopped has progress = 1 and value = round(end).
C3_FinalUpdateExact ==
    \A i \in TweenIds :
        (Stopped(i) /\ tweens[i].duration > 0 /\ FiniteEnds(i)) =>
            /\ Len(updates[i]) > 0
            /\ Last(updates[i]).progress = Num(1)
            /\ Last(updates[i]).value = MathRound(tweens[i].end)

\* a bounce tween towards 2.5 that stopped after several frames
C3_Witness ==
    \E i \in TweenIds :
        /\ Stopped(i) /\ tweens[i].duration > 0
        /\ tweens[i].easing = "bounce" /\ tweens[i].kind = "animateValue"
        /\ tweens[i].start = Num(0) /\ tweens[i].end = Fin(5, 2)
        /\ Len(updates[i]) >= 2
        /\ Last(updates[i]).value = Num(3)

\* C4: every tween eventually delivers an update with progress = 1 and then has no
\* frame callback pending.  Only frame callbacks deliver updates, so the claim requires
\* of every state: a tween that has no frame callback pending has delivered an update
\* with progress = 1.
\* With duration 0 and a frame at the start time the code computes progress NaN, which
\* is not below 1: the tween stops without ever delivering progress 1.
C4_StoppedOnlyAtProgressOne ==
    \A i \in TweenIds :
        Stopped(i) => \E k \in 1..Len(updates[i]) : updates[i][k].progress = Num(1)

\* C5: once a tween has delivered an update with progress >= 1 it has no frame
\* callback pending and delivers no further update; an update with progress < 1 is
\* followed by exactly one requested frame callback.  Updates are delivered one at a
\* time and only to a tween whose callback was pending.
C5_Step(i) ==
    LET delivered == \E k \in 1..Len(updates[i]) : Le(Num(1), updates[i][k].progress)
    IN  /\ delivered => (updates'[i] = updates[i] /\ PendingCount(i, rafQueue') = 0)
        /\ updates'[i] # updates[i] =>
              /\ Pending(i)
              /\ Len(updates'[i]) = Len(updates[i]) + 1
              /\ LET u == Last(updates'[i])
                 IN  /\ Le(Num(1), u.progress) => PendingCount(i, rafQueue') = 0
                     /\ Lt(u.progress, Num(1)) => PendingCount(i, rafQueue') = 1

\* C5: every step of the system treats every tween as C5_Step says
C5_DiscardedAtProgressOne == [][\A i \in TweenIds : C5_Step(i)]_vars

\* a rollTo tween that reached progress 1 on its second frame and is no longer pending
C5_Witness ==
    \E i \in TweenIds :
        /\ tweens[i].kind = "rollTo" /\ Stopped(i)
        /\ Len(updates[i]) = 2
        /\ Lt(updates[i][1].progress, Num(1))
        /\ updates[i][2].progress = Num(1)

\* C6: with duration > 0 and finite start and end, the progress of every update lies
\* in [0, 1], and with end > start no update carries a value below round(start).
\* The code clamps the progress from above only: a frame whose timestamp precedes the
\* recorded start time gives a negative progress.
C6_ProgressClamped ==
    \A i \in TweenIds :
        (Created(i) /\ tweens[i].duration > 0 /\ FiniteEnds(i)) =>
            \A k \in 1..Len(updates[i]) :
                /\ Le(Num(0), updates[i][k].progress)
                /\ Le(updates[i][k].progress, Num(1))
                /\ Lt(tweens[i].start, tweens[i].end) =>
                      Le(MathRound(tweens[i].start), updates[i][k].value)

\* C7: for the linear and easeOutCubic easings and finite start and end, the values of
\* successive updates (their timestamps increase) are non-decreasing when end > start
\* and non-increasing when end < start.
\* With a negative duration the progress decreases as the clock advances, so the
\* values move away from end.
C7_Monotonic ==
    \A i \in TweenIds :
        (/\ Created(i) /\ FiniteEnds(i) /\ tweens[i].kind = "animateValue"
         /\ tweens[i].easing \in {"linear", "easeOut"}) =>
            \A k \in 1..(Len(updates[i]) - 1) :
                /\ Lt(tweens[i].start, tweens[i].end) =>
                      Le(updates[i][k].value, updates[i][k + 1].value)
                /\ Lt(tweens[i].end, tweens[i].start) =>
                      Le(updates[i][k + 1].value, updates[i][k].value)

\* C9: a tween whose start or end is not finite delivers no update, so that no value
\* that is not finite reaches the display.
\* The code validates nothing: the tween runs and writes NaN or an infinity.
C9_NonFiniteRejected ==
    \A i \in TweenIds :
        (Created(i) /\ ~FiniteEnds(i)) => updates[i] = <<>>

----------------------------------------------------------------------------
(* Properties of a batch, checked under SeqSpec *)

InBatch(i) == batchTime >= 0 /\ (timers[i].armed \/ Created(i))

\* the entry's timer fired at the very time it was due
Punctual(i) == Created(i) /\ tweens[i].startTimestamp = timers[i].due

\* C8: the timer of every entry of a batch can fire exactly when the entry's own delay
\* has elapsed since the batch call, whatever the state of the other entries; its tween
\* never starts earlier, and when the timer fires at the time it is due the tween's
\* start time is batch time + delay and the progress of every update is the time since
\* then over the duration.  With delays 0 and 5, duration 10 and punctual timers, the
\* frame at batch time + 6 gives the first tween progress 6/10 and the second 1/10.
C8_DelaysFromBatchOrigin ==
    \A i \in TweenIds : InBatch(i) =>
        LET origin == batchTime + timers[i].delay
        IN  /\ timers[i].armed => (ENABLED TimerFires(i) <=> now >= origin)
            /\ Created(i) => tweens[i].startTimestamp >= origin
            /\ Punctual(i) =>
                  /\ tweens[i].startTimestamp = origin
                  /\ \A k \in 1..Len(updates[i]) :
                        LET u == updates[i][k]
                        IN  u.progress = IF u.ts - origin >= tweens[i].duration
                                         THEN Num(1)
                                         ELSE Fin(u.ts - origin, tweens[i].duration)
            /\ (Punctual(i) /\ tweens[i].duration = 10 /\ timers[i].delay \in {0, 5}) =>
                  \A k \in 1..Len(updates[i]) :
                      updates[i][k].ts = batchTime + 6 =>
                          updates[i][k].progress =
                              IF timers[i].delay = 0 THEN Fin(6, 10) ELSE Fin(1, 10)

\* delays 0 and 5: the second tween started on time while the first was still running,
\* and the frame at batch time + 6 gave them progress 6/10 and 1/10
C8_Witness ==
    /\ batchTime >= 0
    /\ timers[1].delay = 0 /\ timers[2].delay = 5
    /\ Punctual(1) /\ Punctual(2)
    /\ Pending(1) /\ Pending(2)
    /\ Len(updates[1]) > 0 /\ Len(updates[2]) > 0
    /\ Last(updates[1]).ts = batchTime + 6 /\ Last(updates[1]).progress = Fin(3, 5)
    /\ Last(updates[2]).ts = batchTime + 6 /\ Last(updates[2]).progress = Fin(1, 10)

----------------------------------------------------------------------------
(* Properties of two tweens, checked under PairSpec *)

TimestampsOf(i) == [k \in 1..Len(updates[i]) |-> updates[i][k].ts]

ValuesOf(i) == [k \in 1..Len(updates[i]) |-> updates[i][k].value]

SameInputs(i, j) ==
    /\ tweens[i].start = tweens[j].start
    /\ tweens[i].end = tweens[j].end
    /\ tweens[i].duration = tweens[j].duration
    /\ tweens[i].easing = tweens[j].easing

\* C10: two tweens with the same start, end, duration and easing that have received
\* the same sequence of frame timestamps have delivered the same sequence of values.
\* The code measures the elapsed time from the clock value at the call, not from the
\* first frame: two tweens requested at different times differ on the same frames.
C10_Deterministic ==
    \A i \in TweenIds, j \in TweenIds :
        (Created(i) /\ Created(j) /\ SameInputs(i, j) /\ TimestampsOf(i) = TimestampsOf(j))
            => ValuesOf(i) = ValuesOf(j)

----------------------------------------------------------------------------
(* Properties of the room service, checked under SvcSpec *)

\* where a room stands in a list that holds it
PositionIn(rooms, room) == CHOOSE k \in 1..Len(rooms) : rooms[k] = room

\* result is the stored list when nothing is selected, and otherwise the stored rooms
\* whose id is selected, each once, in stored order
FilteredAsSelected(result) ==
    LET ids == filtersSignal.selectedRoomIds
    IN  IF ids = <<>>
        THEN result = roomsSignal
        ELSE /\ \A k \in 1..Len(result) :
                    \E m \in 1..Len(roomsSignal) : roomsSignal[m] = result[k]
             /\ IdsOf(result) = {id \in IdsOf(roomsSignal) : \E k \in 1..Len(ids) : ids[k] = id}
             /\ \A k \in 1..Len(result), l \in 1..Len(result) :
                    k < l => PositionIn(roomsSignal, result[k]) < PositionIn(roomsSignal, result[l])
             /\ ids = <<"room-1">> => (Len(result) = 1 /\ result[1].id = "room-1")

C11_Step ==
    /\ FilteredAsSelected(getFilteredRooms)
    /\ filtered' # filtered =>
          /\ filtered' = <<getFilteredRooms>>
          /\ UNCHANGED <<roomsSignal, filtersSignal>>

\* C11: in every state getFilteredRooms returns all stored rooms in stored order when
\* selectedRoomIds is empty, and otherwise exactly the stored rooms whose id is in
\* selectedRoomIds, each once and in stored order (with only 'room-1' selected: one
\* room, 'room-1'); a call returns that list and changes neither the stored rooms nor
\* the stored filter.
C11_FilteredRooms == [][C11_Step]_vars

\* 'room-3' and 'room-1' selected in that order: the call returned Room A, then Room C
C11_Witness ==
    /\ filtersSignal.selectedRoomIds = <<"room-3", "room-1">>
    /\ filtered = <<getFilteredRooms>>
    /\ Len(filtered[1]) = 2
    /\ filtered[1][1].id = "room-1" /\ filtered[1][2].id = "room-3"

C12_Step ==
    /\ Len(requests') > Len(requests) => (loadingSignal' = TRUE /\ errorSignal' = <<>>)
    /\ (Len(received') > Len(received) /\ Last(received').failed) =>
          /\ loadingSignal' = FALSE
          /\ errorSignal' = <<FetchFailure>>
          /\ Last(received').kind = "next" /\ Last(received').value = <<>>
          /\ roomsSignal' = roomsSignal

\* C12: the step that issues a getRooms request sets loading$ to true and error$ to
\* null; the step in which a request fails sets loading$ to false and error$ to the
\* failure message, hands the subscriber an empty list as a value, not an error, and
\* leaves the stored room list unchanged.
C12_FailureHandled == [][C12_Step]_vars

\* a request has failed: the subscriber got the empty list, error$ holds the message
C12_Witness ==
    /\ Len(received) > 0
    /\ Last(received).failed /\ Last(received).value = <<>>
    /\ errorSignal = <<FetchFailure>> /\ ~loadingSignal
    /\ roomsSignal = Rooms

----------------------------------------------------------------------------
(* Properties of the dropdown's text, checked under DisplaySpec *)

\* the selection names rooms of the list, each at most once
SelectsListedRooms(rooms, ids) ==
    /\ \A k \in 1..Len(ids) : ids[k] \in IdsOf(rooms)
    /\ \A k \in 1..Len(ids), l \in 1..Len(ids) : ids[k] = ids[l] => k = l

\* C13: for a room list of any size and a selection of n of its rooms, the text is
\* 'All rooms selected' when n = 0 or n = the size of the list, the name of the
\* selected room when n = 1 and the list has other rooms, and '<n> rooms selected'
\* when n >= 2 and some room is not selected.
\* The code tests n = 1 before n = size: for a list of one room that is selected it
\* returns the room's name.
C13_DisplayText ==
    (probe.out # <<>> /\ SelectsListedRooms(probe.args[1], probe.args[2])) =>
        LET rooms == probe.args[1]
            ids == probe.args[2]
            n == Len(ids)
        IN  probe.out[1] =
                IF n = 0 \/ n = Len(rooms) THEN "All rooms selected"
                ELSE IF n = 1
                THEN (CHOOSE room \in {rooms[k] : k \in 1..Len(rooms)} : room.id = ids[1]).name
                ELSE ToString(n) \o " rooms selected"

----------------------------------------------------------------------------
(* Further properties of a single tween, checked under Spec *)

\* the completion action of tween i has been performed: rollTo has reset the offset of
\* its element to translateY(0)
CompletionPerformed(i) ==
    /\ Created(i) /\ tweens[i].kind = "rollTo"
    /\ transform[tweens[i].element].kind = "translateY0"

\* C14: the completion action of a tween with finite start and end is performed only
\* at the frame whose progress reaches 1, together with the final value update, after
\* which the tween has no frame callback pending (so it is performed once).
\* In the code the reset is the else-branch of progress < 1: with duration 0 and a
\* frame at the start time the progress is NaN, and the reset is performed at a frame
\* whose progress is not 1 and whose update is not the final value.
C14_CompletionAtProgressOne ==
    \A i \in TweenIds :
        (CompletionPerformed(i) /\ FiniteEnds(i)) =>
            /\ Stopped(i)
            /\ Len(updates[i]) > 0
            /\ Last(updates[i]).progress = Num(1)
            /\ Last(updates[i]).value = MathRound(tweens[i].end)

\* C19: a tween with start = end (finite) and duration > 0 has a frame callback
\* pending until it has been stepped by a frame at which the elapsed time has reached
\* the duration, and every update it delivers carries the value round(start).
C19_EqualEndsRunFullDuration ==
    \A i \in TweenIds :
        (/\ Created(i) /\ FiniteEnds(i) /\ tweens[i].start = tweens[i].end
         /\ tweens[i].duration > 0) =>
            /\ \A k \in 1..Len(updates[i]) : updates[i][k].value = MathRound(tweens[i].start)
            /\ (\A k \in 1..Len(updates[i]) :
                    updates[i][k].ts - tweens[i].startTimestamp < tweens[i].duration)
                  => Pending(i)

\* a tween from 4 to 4 over 4 time units that has delivered 4 twice and is still running
C19_Witness ==
    \E i \in TweenIds :
        /\ tweens[i].start = Num(4) /\ tweens[i].end = Num(4) /\ tweens[i].duration = 4
        /\ Len(updates[i]) = 2 /\ Pending(i)
        /\ updates[i][1].value = Num(4) /\ updates[i][2].value = Num(4)
        /\ Lt(Num(0), updates[i][2].progress)

----------------------------------------------------------------------------
(* Further properties of two tweens, checked under PairSpec *)

\* the value a tween with record tw delivers at a frame with timestamp ts, by its own
\* start, end, duration, easing and start time
OwnValue(tw, ts) ==
    CurrentValue(tw.start, Sub(tw.end, tw.start),
                 getEasingFunction(tw.easing, Progress(ts, tw.startTimestamp, tw.duration)))

C15_Step(i) ==
    /\ Created(i) => tweens'[i] = tweens[i]
    /\ \A k \in 1..Len(updates[i]) : Len(updates'[i]) >= k /\ updates'[i][k] = updates[i][k]
    /\ \A k \in (Len(updates[i]) + 1)..Len(updates'[i]) :
          updates'[i][k].value = OwnValue(tweens'[i], updates'[i][k].ts)

\* C15: in every step, whatever tweens are started or stepped in it, the record of a
\* tween already started is unchanged, the updates it has delivered are unchanged, and
\* every value it delivers in the step is the function of its own start, end, duration,
\* easing and start time and of the frame's timestamp.
C15_NoSharedState == [][\A i \in TweenIds : C15_Step(i)]_vars

\* two tweens started at different times with different durations, both still running,
\* stepped by the same frame and given different values
C15_Witness ==
    /\ Pending(1) /\ Pending(2)
    /\ tweens[1].startTimestamp # tweens[2].startTimestamp
    /\ tweens[1].duration # tweens[2].duration
    /\ Len(updates[1]) > 0 /\ Len(updates[2]) > 0
    /\ Last(updates[1]).ts = Last(updates[2]).ts
    /\ Last(updates[1]).value # Last(updates[2]).value

----------------------------------------------------------------------------
(* Properties of the dashboard's counters, checked under DashSpec *)

\* the counter the closure with id i animates, and the run of animateCounters it is of
CounterOf(i) == Counters[((i - 1) % Len(Counters)) + 1]

RunOf(i) == ((i - 1) \div Len(Counters)) + 1

\* the aggregates of the rooms the current filter selects
Aggregate(counter) ==
    LET rooms == getFilteredRooms
        quota == SumOver(rooms, "quotaRemaining")
    IN  CASE counter = "totalRoomsCounter" -> Len(rooms)
          [] counter = "totalApiCallsCounter" -> SumOver(rooms, "apiCalls")
          [] counter = "avgQuotaCounter" ->
                IF Len(rooms) = 0 THEN 0 ELSE (2 * quota + Len(rooms)) \div (2 * Len(rooms))
          [] counter = "activeRoomsCounter" ->
                Cardinality({k \in 1..Len(rooms) : rooms[k].apiCalls > 0})

\* all timers of the dashboard have fired and all its animations have stopped
CountersAtRest ==
    /\ counterTimers = <<>>
    /\ rafQueue = <<>>
    /\ CreatedCount > 0

----------------------------------------------------------------------------
(* Properties of the easing functions, checked under EaseSpec *)

\* the four functions at t = n/d, written out over the integers
CubicOut(n, d) == Fin(d * d * d - (d - n) * (d - n) * (d - n), d * d * d)

CubicInOut(n, d) ==
    IF 2 * n < d
    THEN Fin(4 * n * n * n, d * d * d)
    ELSE Fin(2 * d * d * d - (2 * d - 2 * n) * (2 * d - 2 * n) * (2 * d - 2 * n), 2 * d * d * d)

BounceOut(n, d) ==
    IF 11 * n < 4 * d THEN Fin(121 * n * n, 16 * d * d)
    ELSE IF 11 * n < 8 * d THEN Fin((11 * n - 6 * d) * (11 * n - 6 * d) + 12 * d * d, 16 * d * d)
    ELSE IF 11 * n < 10 * d THEN Fin((11 * n - 9 * d) * (11 * n - 9 * d) + 15 * d * d, 16 * d * d)
    ELSE Fin((22 * n - 21 * d) * (22 * n - 21 * d) + 63 * d * d, 64 * d * d)

\* C17: each of the four easing functions gives 0 at 0 and 1 at 1, and the selector
\* gives, at every point, the value of the function of the kind asked for: t for
\* linear, 1 - (1-t)^3 for easeOut, 4t^3 below 1/2 and 1 - (-2t+2)^3/2 from 1/2 for
\* easeInOut, the four-segment bounce for bounce, and that of easeOut for a kind it
\* does not recognise.
C17_EasingEndpoints ==
    probe.out # <<>> =>
        LET type == probe.args[1]
            t == probe.args[2]
            y == probe.out[1]
        IN  /\ t = Num(0) => y = Num(0)
            /\ t = Num(1) => y = Num(1)
            /\ y = CASE type = "linear" -> t
                      [] type = "easeInOut" -> CubicInOut(t.n, t.d)
                      [] type = "bounce" -> BounceOut(t.n, t.d)
                      [] OTHER -> CubicOut(t.n, t.d)

\* the bounce function was selected and gave 1 at 1
C17_Witness ==
    /\ probe.fn = "getEasingFunction"
    /\ probe.args = <<"bounce", Num(1)>>
    /\ probe.out = <<Num(1)>>

----------------------------------------------------------------------------
(* Properties of the rounding of delivered values, checked under RoundSpec *)

\* the finite number x rounded to the nearest integer, ties away from zero
RoundHalfAwayFromZero(x) == Num(Sign(x.n) * ((2 * Abs(x.n) + x.d) \div (2 * x.d)))

\* C18: the value delivered for start, end and eased progress f(p) is
\* start + (end - start) * f(p) rounded to the nearest integer, ties away from zero:
\* -2.5 gives -3 and 2.5 gives 3.
\* The code calls Math.round, which rounds a tie towards +Infinity: -2.5 gives -2.
C18_RoundHalfAwayFromZero ==
    probe.out # <<>> =>
        LET start == probe.args[1]
            end == probe.args[2]
            easedProgress == probe.args[3]
        IN  probe.out[1] = RoundHalfAwayFromZero(Add(start, Mul(Sub(end, start), easedProgress)))

----------------------------------------------------------------------------
(* Properties of the room status, checked under StatusSpec *)

\* the status class of a room, by priority
StatusClass(room) ==
    IF room.quotaRemaining = 0 THEN "critical"
    ELSE IF room.quotaRemaining < 20 THEN "warning"
    ELSE IF room.apiCalls = 0 THEN "idle"
    ELSE "active"

\* what each view shows for a status class
ViewsOf(class) ==
    CASE class = "critical" ->
            [text |-> "Quota Exhausted", label |-> "Full",
             classes |-> "status-indicator status-critical"]
      [] class = "warning" ->
            [text |-> "High Usage Alert", label |-> "High",
             classes |-> "status-indicator status-warning"]
      [] class = "idle" ->
            [text |-> "Inactive Room", label |-> "Idle",
             classes |-> "status-indicator status-idle"]
      [] class = "active" ->
            [text |-> "Operating Normally", label |-> "Active",
             classes |-> "status-indicator status-active"]

\* C20: every room has exactly one status class, critical when quotaRemaining = 0,
\* else warning when quotaRemaining < 20, else idle when apiCalls = 0, else active, and
\* the dropdown's label, the dropdown's CSS class and the detail panel's status text
\* are all those of that one class.
C20_StatusClassification ==
    probe.out # <<>> => probe.out[1] = ViewsOf(StatusClass(probe.args[1]))

\* a room with no calls and a quota of 10 is shown as warning by all three, not as idle
C20_Witness ==
    /\ probe.out # <<>>
    /\ probe.args[1].apiCalls = 0 /\ probe.args[1].quotaRemaining = 10
    /\ probe.out[1].label = "High"
    /\ probe.out[1].classes = "status-indicator status-warning"
    /\ probe.out[1].text = "High Usage Alert"


----------------------------------------------------------------------------
(* Two animations of one element, checked under OverlapSpec *)

\* C21: when animateValue is called on an element whose earlier animation is still
\* running, then once both tweens have stopped the element displays the formatted end
\* value of the tween started last, whatever the two durations and the frames.
\* The code never cancels the earlier tween: when it has the longer duration it ends
\* after the later one and its last write stays.
C21_LatestEndDisplayed ==
    (Stopped(1) /\ Stopped(2)) =>
        textContent["e1"] = formatNumber(MathRound(tweens[2].end))

----------------------------------------------------------------------------
(* Overlapping requests of the room service, checked under SvcSpec *)

\* C22: in every state of the service, loading is true exactly when some getRooms
\* request has been issued whose result is not yet delivered, also when requests overlap.
\* The code keeps one flag and no count: the delivery of the first of two overlapping
\* requests sets loading to false while the second is still outstanding.
C22_LoadingIffOutstanding ==
    loadingSignal <=> (requests # <<>>)

\* C23: once every issued getRooms request has delivered its result, the error is set
\* exactly when the request issued last has failed (results are delivered in the order
\* the requests were issued, each after the same delay).
\* The success path never clears the error: the failure of an earlier overlapping
\* request stays shown after the later request has succeeded.
C23_ErrorOfLatestRequest ==
    (requests = <<>> /\ received # <<>>) =>
        ((errorSignal # <<>>) <=> Last(received).failed)

----------------------------------------------------------------------------
(* The filter component and the selected room, checked under ViewSpec *)

\* the service's filter is the component's selection
FilterInSync == filtersSignal.selectedRoomIds = roomFilter.selectedRoomIds

C24_Step ==
    /\ selectAll =>
          /\ Len(roomFilter'.selectedRoomIds) = Len(roomFilter.rooms)
          /\ \A k \in 1..Len(roomFilter.rooms) :
                roomFilter'.selectedRoomIds[k] = roomFilter.rooms[k].id
    /\ clearAll => roomFilter'.selectedRoomIds = <<>>
    /\ (toggleDropdown \/ closeDropdown) =>
          /\ roomFilter'.selectedRoomIds = roomFilter.selectedRoomIds
          /\ filtersSignal' = filtersSignal

\* C24: in every state reached by onRoomSelectionChange, selectAll, clearAll and the
\* dropdown's operations, each filtersChanged event handled by the dashboard, the
\* selectedRoomIds of the service's filter are those of the component; selectAll leaves
\* the ids of all rooms of the component selected, each once, clearAll leaves none, and
\* toggleDropdown and closeDropdown change neither the selection nor the service's filter.
C24_FilterFollowsSelection == []FilterInSync /\ [][C24_Step]_vars

\* after selectAll and the unchecking of a room, with the dropdown open, the service
\* holds the component's selection of some of the rooms
C24_Witness ==
    /\ roomFilter.rooms # <<>>
    /\ roomFilter.isDropdownOpen
    /\ roomFilter.selectedRoomIds # <<>>
    /\ Len(roomFilter.selectedRoomIds) < Len(roomFilter.rooms)
    /\ filtersSignal.selectedRoomIds = roomFilter.selectedRoomIds
    /\ Len(counterTimers) >= 2

\* the selected room is null or one of the currently filtered rooms
SelectedRoomIsFiltered ==
    selectedRoom = <<>> \/
        \E k \in 1..Len(getFilteredRooms) : getFilteredRooms[k] = selectedRoom[1]

\* the stored rooms an event's id resolves to
RoomsOfEvent(event) ==
    IF event.data = <<>> THEN {}
    ELSE IF event.data[1].id = <<>> THEN {}
    ELSE {roomsSignal[k] : k \in {l \in 1..Len(roomsSignal) : roomsSignal[l].id = event.data[1].id[1]}}

C25_Step ==
    /\ \A event \in ChartClicks :
          onChartClick(event) =>
              IF RoomsOfEvent(event) = {} THEN selectedRoom' = selectedRoom
              ELSE selectedRoom' # <<>> /\ selectedRoom'[1] \in RoomsOfEvent(event)
    /\ filtersSignal' # filtersSignal => selectedRoom' = <<>>
    /\ (selectAll \/ clearAll \/ closeDetail) => selectedRoom' = <<>>
    /\ (\E roomId \in ClickedRooms, checked \in BOOLEAN : onRoomSelectionChange(roomId, checked))
          => selectedRoom' = <<>>

----------------------------------------------------------------------------
(* Missed frames, checked under PairSpec *)

\* the time from the recorded start of tween i to its k-th update
ElapsedAt(i, k) == updates[i][k].ts - tweens[i].startTimestamp

\* two tweens with the same inputs deliver the same value and progress wherever the
\* same time has elapsed since their recorded starts
SameAtSameElapsed(i, j) ==
    \A k \in 1..Len(updates[i]), l \in 1..Len(updates[j]) :
        ElapsedAt(i, k) = ElapsedAt(j, l) =>
            /\ updates[i][k].value = updates[j][l].value
            /\ updates[i][k].progress = updates[j][l].progress

\* C26: the value a tween delivers at a frame depends only on its start, end, duration
\* and easing and on the time elapsed since its recorded start, not on which or how many
\* frames it received before: two tweens with the same inputs agree on every pair of
\* frames with the same elapsed time, whatever other frames each has received, and no
\* step changes the recorded start time of a tween.
C26_MissedFramesHarmless ==
    /\ [](\A i \in TweenIds, j \in TweenIds :
             (Created(i) /\ Created(j) /\ SameInputs(i, j)) => SameAtSameElapsed(i, j))
    /\ [][\A i \in TweenIds :
             Created(i) => tweens'[i].startTimestamp = tweens[i].startTimestamp]_vars

\* tween 2, with the inputs of tween 1, has received a single frame, at which as much
\* time had elapsed as at the second frame of tween 1: tween 2 missed a frame and
\* delivers the value tween 1 delivered at its second frame, before the end
C26_Witness ==
    /\ Created(1) /\ Created(2) /\ SameInputs(1, 2)
    /\ Len(updates[1]) >= 2 /\ Len(updates[2]) = 1
    /\ ElapsedAt(1, 1) > 0 /\ ElapsedAt(1, 1) < ElapsedAt(1, 2)
    /\ ElapsedAt(1, 2) = ElapsedAt(2, 1)
    /\ updates[2][1].value = updates[1][2].value
    /\ Lt(updates[2][1].progress, Num(1))
====
